---- MODULE Spec2Model ----
(***************************************************************************)
(* Model of server.js: a minimal RAG server.  POST /process normalizes up  *)
(* to three inputs (inline text, an uploaded PDF, a YouTube URL) into      *)
(* documents, chunks them, upserts the chunks into the shared Qdrant       *)
(* collection and registers a session; POST /ask resolves a session and    *)
(* answers a query by retrieval followed by a language-model call.         *)
(*                                                                         *)
(* Node runs handlers on one thread: every action below is the code that   *)
(* runs between two suspension points (awaits on I/O).  The external       *)
(* collaborators (file system, PDF loader, YouTube loader, text splitter,  *)
(* Qdrant, OpenAI) are the environment: each of their calls completes with *)
(* an outcome chosen nondeterministically from a small set.                *)
(***************************************************************************)
EXTENDS Integers, Sequences, FiniteSets, TLC

(***************************************************************************)
(* Bounds of the model.                                                    *)
(***************************************************************************)
MaxIngest == 2      \* /process requests of one behaviour
MaxChunks == 1      \* chunks the splitter makes of one non-blank document
MaxSessionIds == 2  \* distinct values newSessionId() can return

Ingests == 1..MaxIngest

(***************************************************************************)
(* JavaScript values.  Text is a sequence of one-character strings, so     *)
(* that trim() is computed; a request field is undefined, a string, or a   *)
(* truthy non-string (a repeated form field arrives as an array).          *)
(***************************************************************************)
Undef == [t |-> "undefined"]
Str(s) == [t |-> "string", v |-> s]
Arr == [t |-> "array"]

\* !x is FALSE
Truthy(x) == x.t = "array" \/ (x.t = "string" /\ x.v # <<>>)

\* The characters String.prototype.trim strips: WhiteSpace and LineTerminator
\* of ECMAScript.  A character that cannot be written in a string of this
\* module stands here under the name of its code point.
WhiteSpace ==
  {" ", "\t", "\n", "\r", "\f", "U+000B", "U+00A0", "U+1680",
   "U+2000", "U+2001", "U+2002", "U+2003", "U+2004", "U+2005", "U+2006",
   "U+2007", "U+2008", "U+2009", "U+200A", "U+2028", "U+2029", "U+202F",
   "U+205F", "U+3000", "U+FEFF"}

IsSpace(c) == c \in WhiteSpace

RECURSIVE TrimStart(_)
TrimStart(s) ==
  IF s = <<>> THEN <<>>
  ELSE IF IsSpace(Head(s)) THEN TrimStart(Tail(s)) ELSE s

RECURSIVE TrimEnd(_)
TrimEnd(s) ==
  IF s = <<>> THEN <<>>
  ELSE IF IsSpace(s[Len(s)]) THEN TrimEnd(SubSeq(s, 1, Len(s) - 1)) ELSE s

\* String.prototype.trim
Trim(s) == TrimEnd(TrimStart(s))

\* Array.prototype.join("\n") of a sequence of texts
RECURSIVE JoinLines(_)
JoinLines(ts) ==
  IF ts = <<>> THEN <<>>
  ELSE IF Len(ts) = 1 THEN ts[1]
  ELSE ts[1] \o <<"\n">> \o JoinLines(Tail(ts))

\* Array.prototype.flat() of a sequence of sequences
RECURSIVE Flat(_)
Flat(parts) ==
  IF parts = <<>> THEN <<>> ELSE Head(parts) \o Flat(Tail(parts))

Range(s) == {s[i] : i \in 1..Len(s)}

(***************************************************************************)
(* Configuration (server.js lines 29-36).                                  *)
(***************************************************************************)
COLLECTION_NAME == "ragChat"
CollectionNames == {COLLECTION_NAME, "other"}

\* line 36: process.env.YT_LANGUAGE || "en", read once when the process starts
VARIABLE YT_LANGUAGE
YtLanguageEnv == {"", "fr"}
YtLanguages == {IF e # "" THEN e ELSE "en" : e \in YtLanguageEnv}

INLINE == <<"i", "n", "l", "i", "n", "e">>
UPLOAD_PDF == <<"u", "p", "l", "o", "a", "d", ".", "p", "d", "f">>
UNKNOWN == <<"u", "n", "k", "n", "o", "w", "n">>

(***************************************************************************)
(* Documents: new Document({ pageContent, metadata: { source, note } }).   *)
(* note is "" when the metadata has no note.                               *)
(***************************************************************************)
Document(content, source, note) ==
  [pageContent |-> content, source |-> source, note |-> note]

\* Outcome of a promise / async function
Fulfilled(v) == [st |-> "fulfilled", v |-> v]
Rejected(msg) == [st |-> "rejected", msg |-> msg]

(***************************************************************************)
(* Source normalizers (server.js lines 71-170).                            *)
(***************************************************************************)
\* loadInline with a fault: the content is trimmed
loadInlineTrimmed(text) ==
  IF ~Truthy(text) THEN Fulfilled(<<>>)
  ELSE IF text.t # "string" THEN Rejected("text.trim is not a function")
  ELSE IF Trim(text.v) = <<>> THEN Fulfilled(<<>>)
  ELSE Fulfilled(<<Document(Trim(text.v), INLINE, "")>>)

\* loadInline(text): no await, so the promise is settled when it is returned.
\* text.trim() on a truthy non-string throws a TypeError.
loadInline(text) ==
  IF ~Truthy(text) THEN Fulfilled(<<>>)
  ELSE IF text.t # "string" THEN Rejected("text.trim is not a function")
  ELSE IF Trim(text.v) = <<>> THEN Fulfilled(<<>>)
  ELSE Fulfilled(<<Document(text.v, INLINE, "")>>)

\* originalName || "upload.pdf"
PdfSource(originalName) == IF originalName # <<>> THEN originalName ELSE UPLOAD_PDF

\* loadPdf, lines 78-82: fs.access(tempPath) failed
PdfAccessError(tempPath) == "Uploaded file cannot be accessed at " \o tempPath

\* loadPdf, lines 88-94: the loader's documents with source overridden
PdfLoaded(contents, originalName) ==
  [i \in 1..Len(contents) |-> Document(contents[i], PdfSource(originalName), "")]

\* loadPdf, lines 95-105: the loader threw; error?.message || error
PdfFailed(msg, originalName) ==
  <<Document(<<>>, PdfSource(originalName),
             "Error processing PDF: " \o (IF msg # "" THEN msg ELSE "Error"))>>

\* loadYouTube, lines 125/146: docs.map(d => d.pageContent || "").join("\n").trim()
TranscriptText(contents) == Trim(JoinLines(contents))

YtNote(attempt) ==
  IF attempt = 1
  THEN "YouTube transcript loaded via LangChain (lang=" \o YT_LANGUAGE \o ")"
  ELSE "YouTube transcript loaded via LangChain (no lang hint)"

\* loadYouTube, lines 129-134 and 149-154
YtLoaded(text, url, attempt) == <<Document(text, url, YtNote(attempt))>>

\* loadYouTube, lines 161-169
YtPlaceholder(url) ==
  <<Document(<<>>, url,
             "No transcript available or failed to fetch via LangChain YoutubeLoader")>>

(***************************************************************************)
(* Inputs and outcomes the environment can produce.                        *)
(***************************************************************************)
NoFile == [present |-> FALSE]
Upload(path, originalname) ==
  [present |-> TRUE, path |-> path, originalname |-> originalname]

InlineTexts == {Undef, Str(<<>>), Str(<<" ", "\r">>), Str(<<"a", "\r", " ">>), Arr}
Files == {NoFile, Upload("uploads/f1", <<>>), Upload("uploads/f1", <<"d">>)}
YoutubeUrls == {Undef, Str(<<" ">>), Str(<<"y">>), Arr}

\* what PDFLoader.load() returns (one document, splitPages: false) or throws
PdfContents == {<<<<"\f">>>>, <<<<"b">>>>}
PdfErrors == {"", "bad XRef entry"}
\* what YoutubeLoader.load() returns
YtContents == {<<>>, <<<<"U+00A0">>>>, <<<<"c">>, <<"\r">>>>}
\* messages of the errors thrown by Qdrant / OpenAI calls
ProviderErrors == {"", "ECONNREFUSED"}

\* the values newSessionId() can return: "s_" followed by a time and a random part
DIGITS == <<"1", "2", "3", "4", "5", "6", "7", "8", "9">>
SessionIds == {<<"s", DIGITS[i]>> : i \in 1..MaxSessionIds}

(***************************************************************************)
(* State.                                                                  *)
(***************************************************************************)
VARIABLES
  OPENAI_API_KEY,      \* TRUE iff process.env.OPENAI_API_KEY is non-empty
  sessions,            \* the Map: session id -> { store }
  stores,              \* the promises makeStore has returned, by call number
  sharedStorePromise,  \* 0 (null) or the call number of the cached promise
  qdrant,              \* collection name -> set of stored chunks
  ing,                 \* the /process requests
  ask,                 \* the /ask request in flight, or the last one answered
  issued               \* history: the session ids issued before the last restart

vars ==
  <<OPENAI_API_KEY, YT_LANGUAGE, sessions, stores, sharedStorePromise, qdrant, ing, ask, issued>>

Pending(at) == [st |-> "pending", at |-> at]
NoResponse == [status |-> 0]

\* history fields: inlineText (the inlineText of the body), ytCalls (the options
\* of each YoutubeLoader.createFromUrl call), ytLog (how each attempt of
\* loadYouTube ended), order (the branches in the order their promises settled after an
\* await), accessFailed, pdfError, thrown
IdleIngest ==
  [pc |-> "idle", inlineText |-> Undef, file |-> NoFile, url |-> <<>>,
   parts |-> <<Fulfilled(<<>>), Fulfilled(<<>>), Fulfilled(<<>>)>>,
   docs |-> <<>>, chunks |-> <<>>, awaiting |-> 0, store |-> 0,
   upsertCalls |-> 0, unlink |-> "none", accessFailed |-> FALSE, pdfError |-> <<>>,
   ytCalls |-> <<>>, ytLog |-> <<>>, order |-> <<>>,
   thrown |-> <<>>, res |-> NoResponse]

IdleAsk ==
  [pc |-> "idle", sessionId |-> Undef, query |-> Undef, store |-> 0, calls |-> <<>>,
   docs |-> <<>>, thrown |-> <<>>, res |-> NoResponse]

\* history: the error a call of the request threw
Thrown(by, msg) == <<[by |-> by, msg |-> msg]>>

Init ==
  /\ OPENAI_API_KEY \in BOOLEAN
  /\ YT_LANGUAGE \in YtLanguages
  /\ sessions = [k \in {} |-> 0]
  /\ stores = <<>>
  /\ sharedStorePromise = 0
  /\ qdrant = [c \in CollectionNames |-> {}]
  /\ ing = [r \in Ingests |-> IdleIngest]
  /\ ask = IdleAsk
  /\ issued = {}

(***************************************************************************)
(* POST /process (server.js lines 268-321).                                *)
(***************************************************************************)
\* e?.message || fallback
ErrorMessage(msg, fallback) == IF msg # "" THEN msg ELSE fallback

NO_CONTENT ==
  "No extractable content. Tips: add some Inline Text, use a text-based PDF (not scanned), or a YouTube URL with captions."

\* hasAnyContent with a fault: the content is not trimmed
hasAnyContentNoTrim(docs) == \E i \in 1..Len(docs) : Len(docs[i].pageContent) > 0

\* line 291: docs.some(d => (d.pageContent || "").trim().length > 0)
hasAnyContent(docs) == \E i \in 1..Len(docs) : Len(Trim(docs[i].pageContent)) > 0

\* line 294: docs.map(d => d.metadata?.note).filter(Boolean)
RECURSIVE notes(_)
notes(docs) ==
  IF docs = <<>> THEN <<>>
  ELSE (IF Head(docs).note # "" THEN <<Head(docs).note>> ELSE <<>>) \o notes(Tail(docs))

Null == [t |-> "null"]
NoteStr(s) == [t |-> "string", v |-> s]

\* lines 310-314
sourcesMeta(docs) ==
  [i \in 1..Len(docs) |->
     [source |-> IF docs[i].source # <<>> THEN docs[i].source ELSE UNKNOWN,
      note |-> IF docs[i].note # "" THEN NoteStr(docs[i].note) ELSE Null,
      hasContent |-> Trim(docs[i].pageContent) # <<>>]]

\* ProcessCatch with a fault: the message of the error is not reported
ProcessCatchGeneric(x, msg) ==
  [x EXCEPT !.pc = "done", !.res = [status |-> 500, error |-> "Failed to process"]]

\* lines 317-320: the catch block of the handler
ProcessCatch(x, msg) ==
  [x EXCEPT !.pc = "done",
            !.res = [status |-> 500, error |-> ErrorMessage(msg, "Failed to process")]]

\* line 287-289: fs.unlink(file.path) is started only when a file was uploaded
UnlinkStarted(x) == IF x.file.present THEN "pending" ELSE x.unlink

\* AfterNormalize with a fault: the parts are taken in the order the
\* branches settled, the branches that never awaited first
AfterNormalizeCompletionOrder(x) ==
  LET settled == SelectSeq(<<1, 2, 3>>, LAMBDA i : i \notin Range(x.order)) \o x.order
      docs == Flat([i \in 1..3 |-> x.parts[settled[i]].v])
      y == [x EXCEPT !.docs = docs, !.unlink = UnlinkStarted(x)]
  IN IF ~hasAnyContent(docs)
     THEN [y EXCEPT !.pc = "done",
                    !.res = [status |-> 400, error |-> NO_CONTENT, notes |-> notes(docs)]]
     ELSE [y EXCEPT !.pc = "chunkDocs"]

\* lines 285-302, run when Promise.all has fulfilled with parts
AfterNormalize(x) ==
  LET docs == Flat([i \in 1..3 |-> x.parts[i].v])
      y == [x EXCEPT !.docs = docs, !.unlink = UnlinkStarted(x)]
  IN IF ~hasAnyContent(docs)
     THEN [y EXCEPT !.pc = "done",
                    !.res = [status |-> 400, error |-> NO_CONTENT, notes |-> notes(docs)]]
     ELSE [y EXCEPT !.pc = "chunkDocs"]

\* Promise.all (lines 280-284): rejects as soon as one part has rejected,
\* fulfils when all three have fulfilled; the handler resumes in the same turn.
FirstRejected(parts) == CHOOSE i \in 1..3 :
  /\ parts[i].st = "rejected"
  /\ \A j \in 1..(i - 1) : parts[j].st # "rejected"

\* PromiseAll with a fault: it fulfils as soon as one part has content
\* (Promise.any in place of Promise.all)
PromiseAllFirstContent(x) ==
  IF x.pc # "normalize" THEN x
  ELSE IF \E i \in 1..3 : x.parts[i].st = "rejected"
       THEN ProcessCatch([x EXCEPT !.thrown = Thrown("normalize", x.parts[FirstRejected(x.parts)].msg)],
                         x.parts[FirstRejected(x.parts)].msg)
  ELSE IF \A i \in 1..3 : x.parts[i].st = "fulfilled"
       THEN AfterNormalize(x)
  ELSE IF \E i \in 1..3 : x.parts[i].st = "fulfilled" /\ hasAnyContent(x.parts[i].v)
       THEN [x EXCEPT !.pc = "chunkDocs",
                      !.unlink = UnlinkStarted(x),
                      !.docs = Flat([i \in 1..3 |-> IF x.parts[i].st = "fulfilled"
                                                    THEN x.parts[i].v ELSE <<>>])]
  ELSE x

PromiseAll(x) ==
  IF x.pc # "normalize" THEN x
  ELSE IF \E i \in 1..3 : x.parts[i].st = "rejected"
       THEN ProcessCatch([x EXCEPT !.thrown = Thrown("normalize", x.parts[FirstRejected(x.parts)].msg)],
                         x.parts[FirstRejected(x.parts)].msg)
  ELSE IF \A i \in 1..3 : x.parts[i].st = "fulfilled"
       THEN AfterNormalize(x)
  ELSE x

\* loadPdf up to its first await (lines 76-79)
loadPdfStart(file) ==
  IF ~file.present \/ file.path = "" THEN Fulfilled(<<>>) ELSE Pending("access")

\* line 115 lets the url through to the attempts
YtAttempted(url) == Truthy(url) /\ url.t = "string" /\ Trim(url.v) # <<>>

\* loadYouTube up to its first await or, without one, to its return (lines
\* 114-170).  parses: YoutubeLoader.createFromUrl finds a video id in the url;
\* it throws otherwise, in both try blocks alike since it looks at the url
\* only, and the placeholder is returned with no loader.load() awaited.
loadYouTubeStart(url, parses) ==
  IF ~Truthy(url) THEN Fulfilled(<<>>)
  ELSE IF url.t # "string" THEN Rejected("url.trim is not a function")
  ELSE IF Trim(url.v) = <<>> THEN Fulfilled(<<>>)
  ELSE IF parses THEN Pending("attempt1")
  ELSE Fulfilled(YtPlaceholder(url.v))

\* the options of YoutubeLoader.createFromUrl in the two attempts
\* (lines 119-123 and 142-144)
YtOptions(attempt) ==
  IF attempt = 1
  THEN [language |-> "en", addVideoInfo |-> TRUE, translation |-> "en"]
  ELSE [addVideoInfo |-> FALSE]

\* the createFromUrl calls loadYouTube makes before its first await
YtCallsStart(url, parses) ==
  IF ~YtAttempted(url) THEN <<>>
  ELSE IF parses THEN <<YtOptions(1)>>
  ELSE <<YtOptions(1), YtOptions(2)>>

\* what ytLog keeps of an attempt that ended in the catch block because
\* createFromUrl threw
CreateThrew == [threw |-> TRUE, v |-> <<>>, at |-> "createFromUrl"]

\* the attempts of loadYouTube that have ended before its first await
YtLogStart(url, parses) ==
  IF YtAttempted(url) /\ ~parses THEN <<CreateThrew, CreateThrew>> ELSE <<>>

\* The handler from its start to the await of Promise.all or beyond
ProcessStart(r, inlineText, file, youtubeUrl, parses) ==
  /\ ing[r].pc = "idle"
  /\ ing' = [ing EXCEPT ![r] =
       PromiseAll([IdleIngest EXCEPT
          !.pc = "normalize",
          !.inlineText = inlineText,
          !.file = file,
          !.ytCalls = YtCallsStart(youtubeUrl, parses),
          !.ytLog = YtLogStart(youtubeUrl, parses),
          !.url = IF youtubeUrl.t = "string" THEN youtubeUrl.v ELSE <<>>,
          !.parts = <<loadInline(inlineText), loadPdfStart(file),
                      loadYouTubeStart(youtubeUrl, parses)>>])]
  /\ UNCHANGED <<OPENAI_API_KEY, YT_LANGUAGE, issued, sessions, stores, sharedStorePromise, qdrant, ask>>

\* branch i of Promise.all moves on to part after an await
Settle(x, i, part) ==
  [x EXCEPT !.parts[i] = part,
            !.order = IF part.st # "pending" THEN Append(@, i) ELSE @]

\* PdfAccessOutcome with a fault: a failed fs.access is ignored
PdfAccessOutcomeSwallowed(ok, tempPath) ==
  IF ok THEN Pending("load") ELSE Fulfilled(<<>>)

\* loadPdf, lines 78-86: a failed fs.access is rethrown, else the loader is started
PdfAccessOutcome(ok, tempPath) ==
  IF ok THEN Pending("load") ELSE Rejected(PdfAccessError(tempPath))

\* fs.access settles (lines 78-82); accessFailed is history
PdfAccessDone(r, ok) ==
  /\ ing[r].parts[2] = Pending("access")
  /\ ing' = [ing EXCEPT ![r] =
       PromiseAll(Settle([@ EXCEPT !.accessFailed = ~ok],
                         2, PdfAccessOutcome(ok, ing[r].file.path)))]
  /\ UNCHANGED <<OPENAI_API_KEY, YT_LANGUAGE, issued, sessions, stores, sharedStorePromise, qdrant, ask>>

\* PdfLoadOutcome with a fault: no try/catch around the loader
PdfLoadOutcomeThrows(outcome, originalName) ==
  IF outcome.st = "fulfilled"
  THEN Fulfilled(PdfLoaded(outcome.v, originalName))
  ELSE Rejected(outcome.msg)

\* loadPdf, lines 84-106: the try/catch around the loader
PdfLoadOutcome(outcome, originalName) ==
  IF outcome.st = "fulfilled"
  THEN Fulfilled(PdfLoaded(outcome.v, originalName))
  ELSE Fulfilled(PdfFailed(outcome.msg, originalName))

\* loader.load() of the PDF settles (lines 84-106); pdfError is history
PdfLoadDone(r, outcome) ==
  /\ ing[r].parts[2] = Pending("load")
  /\ ing' = [ing EXCEPT ![r] =
       PromiseAll(Settle([@ EXCEPT !.pdfError = IF outcome.st = "rejected"
                                                THEN <<outcome.msg>> ELSE <<>>],
                         2, PdfLoadOutcome(outcome, ing[r].file.originalname)))]
  /\ UNCHANGED <<OPENAI_API_KEY, YT_LANGUAGE, issued, sessions, stores, sharedStorePromise, qdrant, ask>>

\* YtAttempt with a fault: no try/catch around the attempts
YtAttemptThrows(url, attempt, outcome) ==
  LET text == IF outcome.st = "fulfilled" THEN TranscriptText(outcome.v) ELSE <<>>
  IN IF outcome.st = "rejected" THEN Rejected(outcome.msg)
     ELSE IF text # <<>> THEN Fulfilled(YtLoaded(text, url, attempt))
     ELSE IF attempt = 1 THEN Pending("attempt2")
     ELSE Fulfilled(YtPlaceholder(url))

\* YtAttempt with a fault: the second attempt is made whatever the first gave
YtAttemptAlwaysSecond(url, attempt, outcome) ==
  LET text == IF outcome.st = "fulfilled" THEN TranscriptText(outcome.v) ELSE <<>>
  IN IF attempt = 1 THEN Pending("attempt2")
     ELSE IF text # <<>> THEN Fulfilled(YtLoaded(text, url, attempt))
     ELSE Fulfilled(YtPlaceholder(url))

\* one attempt of loadYouTube, from the settling of loader.load() on
YtAttempt(url, attempt, outcome) ==
  LET text == IF outcome.st = "fulfilled" THEN TranscriptText(outcome.v) ELSE <<>>
  IN IF text # <<>> THEN Fulfilled(YtLoaded(text, url, attempt))
     ELSE IF attempt = 1 THEN Pending("attempt2")
     ELSE Fulfilled(YtPlaceholder(url))

\* what ytLog keeps of a settled loader.load(): whether it threw, else its documents
YtLogged(outcome) ==
  IF outcome.st = "fulfilled" THEN [threw |-> FALSE, v |-> outcome.v, at |-> "load"]
  ELSE [threw |-> TRUE, v |-> <<>>, at |-> "load"]

\* loadYouTube from the settling of a loader.load() to its next await or return
YtStep(x, attempt, outcome) ==
  LET part == YtAttempt(x.url, attempt, outcome)
  IN Settle([x EXCEPT !.ytLog = Append(@, YtLogged(outcome)),
                      !.ytCalls = IF part = Pending("attempt2")
                                  THEN Append(@, YtOptions(2)) ELSE @],
            3, part)

\* loader.load() of the first YouTube attempt settles (lines 118-138)
YtFirstDone(r, outcome) ==
  /\ ing[r].parts[3] = Pending("attempt1")
  /\ ing' = [ing EXCEPT ![r] = PromiseAll(YtStep(ing[r], 1, outcome))]
  /\ UNCHANGED <<OPENAI_API_KEY, YT_LANGUAGE, issued, sessions, stores, sharedStorePromise, qdrant, ask>>

\* loader.load() of the second YouTube attempt settles (lines 140-169)
YtSecondDone(r, outcome) ==
  /\ ing[r].parts[3] = Pending("attempt2")
  /\ ing' = [ing EXCEPT ![r] = PromiseAll(YtStep(ing[r], 2, outcome))]
  /\ UNCHANGED <<OPENAI_API_KEY, YT_LANGUAGE, issued, sessions, stores, sharedStorePromise, qdrant, ask>>

\* the fire-and-forget fs.unlink settles; .catch(() => {}) swallows a failure
UnlinkDone(r, ok) ==
  /\ ing[r].unlink = "pending"
  /\ ing' = [ing EXCEPT ![r].unlink = IF ok THEN "ok" ELSE "failed"]
  /\ UNCHANGED <<OPENAI_API_KEY, YT_LANGUAGE, issued, sessions, stores, sharedStorePromise, qdrant, ask>>

(***************************************************************************)
(* Chunking and the index gateway (server.js lines 172-196, 261-265).      *)
(***************************************************************************)
\* chunkDocs: the splitter makes ms[i] chunks of document i when its content
\* is not blank, and none otherwise; a chunk carries the document's metadata.
\* (req, doc, part) stands for the point id Qdrant gives the chunk.
RECURSIVE splitFrom(_, _, _, _)
splitFrom(r, docs, ms, i) ==
  IF i > Len(docs) THEN <<>>
  ELSE (IF Trim(docs[i].pageContent) = <<>> THEN <<>>
        ELSE [k \in 1..ms[i] |->
                [req |-> r, doc |-> i, part |-> k,
                 pageContent |-> Trim(docs[i].pageContent),
                 source |-> docs[i].source]])
       \o splitFrom(r, docs, ms, i + 1)

chunkDocs(r, docs, ms) == splitFrom(r, docs, ms, 1)

\* makeStore(collectionName): the promise of a handle bound to the collection
makeStore(collectionName) == [st |-> "pending", coll |-> collectionName]

\* StoreMissing with a fault: the promise is not cached
StoreMissingAlways == TRUE

\* StoreMissing with a fault: the settled store is cached, not the promise
StoreMissingWhilePending ==
  sharedStorePromise = 0 \/ stores[sharedStorePromise].st = "pending"

\* StoreMissing with a fault: a rejected promise is dropped and makeStore retried
StoreMissingAfterRejection ==
  sharedStorePromise = 0 \/ stores[sharedStorePromise].st = "rejected"

\* line 263: if (!sharedStorePromise)
StoreMissing == sharedStorePromise = 0

\* UpsertCollection with a fault: the chunks go to a collection of their own
UpsertCollectionOther == "other"

\* line 193: the collection upsertChunks writes to
UpsertCollection == COLLECTION_NAME

\* UpsertIsNoop with a fault: the test of line 190 is inverted
UpsertIsNoopInverted(chunks) == Len(chunks) # 0

\* line 190: if (!chunks || chunks.length === 0) return 0, without any call
UpsertIsNoop(chunks) == Len(chunks) = 0

\* the chunks QdrantVectorStore.fromDocuments has written when it settles:
\* all of them when it fulfils, the first `written` when it rejects
Upserted(chunks, outcome) ==
  IF outcome.st = "fulfilled" THEN Range(chunks)
  ELSE {chunks[i] : i \in 1..outcome.written}

UpsertOutcomes(chunks) ==
  {Fulfilled(Len(chunks))} \cup
  {[st |-> "rejected", msg |-> m, written |-> w] :
     m \in ProviderErrors, w \in 0..(Len(chunks) - 1)}

\* line 307: sessions.set(sessionId, { store })
SessionsSet(id, store) ==
  [k \in DOMAIN sessions \cup {id} |-> IF k = id THEN [store |-> store] ELSE sessions[k]]

\* SessionsAfterUpsert with a fault: upsertChunks is not awaited
SessionsAfterUpsertUnawaited(outcome, id, store) == SessionsSet(id, store)

\* lines 304-307: sessions.set runs only when the awaited upsertChunks fulfilled
SessionsAfterUpsert(outcome, id, store) ==
  IF outcome.st = "fulfilled" THEN SessionsSet(id, store) ELSE sessions

\* lines 306-316: the handler after upsertChunks has returned `added`
ProcessRespond(x, added, id) ==
  [x EXCEPT !.pc = "done",
            !.res = [status |-> 200, sessionId |-> id, chunks |-> Len(x.chunks),
                     added |-> added, sources |-> sourcesMeta(x.docs)]]

\* chunkDocs settles; the handler calls getSharedStore() and awaits its promise
ChunkDocsDone(r, ms) ==
  /\ ing[r].pc = "chunkDocs"
  /\ stores' = IF StoreMissing THEN Append(stores, makeStore(COLLECTION_NAME)) ELSE stores
  /\ sharedStorePromise' = IF StoreMissing THEN Len(stores') ELSE sharedStorePromise
  /\ ing' = [ing EXCEPT ![r].pc = "getSharedStore",
                        ![r].chunks = chunkDocs(r, ing[r].docs, ms),
                        ![r].awaiting = sharedStorePromise']
  /\ UNCHANGED <<OPENAI_API_KEY, YT_LANGUAGE, issued, sessions, qdrant, ask>>

\* QdrantVectorStore.fromExistingCollection settles
MakeStoreDone(p, outcome) ==
  /\ p \in 1..Len(stores)
  /\ stores[p].st = "pending"
  /\ stores' = [stores EXCEPT ![p] =
       IF outcome.st = "fulfilled" THEN [@ EXCEPT !.st = "fulfilled"]
       ELSE [st |-> "rejected", coll |-> @.coll, msg |-> outcome.msg]]
  /\ UNCHANGED <<OPENAI_API_KEY, YT_LANGUAGE, issued, sessions, sharedStorePromise, qdrant, ing, ask>>

\* line 258: newSessionId() returns any of the ids; Date.now() and
\* Math.random() do not exclude a value returned before
newSessionId == SessionIds

\* await getSharedStore() resumes; the handler calls upsertChunks (lines 303-304)
StoreAwaited(r) ==
  /\ ing[r].pc = "getSharedStore"
  /\ stores[ing[r].awaiting].st # "pending"
  /\ LET p == ing[r].awaiting
         x == [ing[r] EXCEPT !.store = p]
     IN IF stores[p].st = "rejected"
        THEN /\ ing' = [ing EXCEPT ![r] =
                  ProcessCatch([ing[r] EXCEPT !.thrown = Thrown("makeStore", stores[p].msg)],
                               stores[p].msg)]
             /\ UNCHANGED sessions
        ELSE IF UpsertIsNoop(x.chunks)
        THEN \E id \in newSessionId :
               /\ ing' = [ing EXCEPT ![r] = ProcessRespond(x, 0, id)]
               /\ sessions' = SessionsSet(id, p)
        ELSE /\ ing' = [ing EXCEPT ![r] = [x EXCEPT !.pc = "upsertChunks",
                                                    !.upsertCalls = @ + 1]]
             /\ UNCHANGED sessions
  /\ UNCHANGED <<OPENAI_API_KEY, YT_LANGUAGE, issued, stores, sharedStorePromise, qdrant, ask>>

\* QdrantVectorStore.fromDocuments settles (lines 191-195, 304-316)
UpsertDone(r, outcome) ==
  /\ ing[r].pc = "upsertChunks"
  /\ outcome \in UpsertOutcomes(ing[r].chunks)
  /\ qdrant' = [qdrant EXCEPT ![UpsertCollection] = @ \cup Upserted(ing[r].chunks, outcome)]
  /\ \E id \in newSessionId :
       /\ sessions' = SessionsAfterUpsert(outcome, id, ing[r].store)
       /\ ing' = [ing EXCEPT ![r] =
            IF outcome.st = "fulfilled"
            THEN ProcessRespond(ing[r], Len(ing[r].chunks), id)
            ELSE ProcessCatch([ing[r] EXCEPT !.thrown = Thrown("fromDocuments", outcome.msg)],
                              outcome.msg)]
  /\ UNCHANGED <<OPENAI_API_KEY, YT_LANGUAGE, issued, stores, sharedStorePromise, ask>>

(***************************************************************************)
(* POST /ask (server.js lines 198-253, 323-337).                           *)
(***************************************************************************)
K == 5
SnippetLen == 200

AskSessionIds == {Undef, Str(<<>>)} \cup {Str(k) : k \in SessionIds}
Queries == {Undef, Str(<<"q">>)}
\* res.content of the language model: a string or an array of fragments
LlmContents == {[t |-> "string", v |-> "blue"], [t |-> "array", v |-> <<"bl", "ue">>]}

\* AskMissingField with a fault: the query is not validated
AskMissingFieldNoQuery(sessionId, query) == ~Truthy(sessionId)

\* line 326: !sessionId || !query
AskMissingField(sessionId, query) == ~Truthy(sessionId) \/ ~Truthy(query)

\* line 328: sessions.get(sessionId) is defined
SessionsHas(sessionId) == sessionId.t = "string" /\ sessionId.v \in DOMAIN sessions

\* lines 333-336: the catch block of the handler
AskCatch(x, msg) ==
  [x EXCEPT !.pc = "done",
            !.res = [status |-> 500, error |-> ErrorMessage(msg, "Failed to answer")]]

\* String.prototype.slice(0, n)
Slice(s, n) == SubSeq(s, 1, IF Len(s) < n THEN Len(s) ELSE n)

\* answerSources with a fault: one entry per distinct source
answerSourcesDeduped(docs) ==
  LET keep == SelectSeq([i \in 1..Len(docs) |-> i],
                        LAMBDA i : \A j \in 1..(i - 1) : docs[j].source # docs[i].source)
  IN [n \in 1..Len(keep) |->
       [source |-> IF docs[keep[n]].source # <<>> THEN docs[keep[n]].source ELSE UNKNOWN,
        snippet |-> Slice(docs[keep[n]].pageContent, SnippetLen)]]

\* lines 247-250
answerSources(docs) ==
  [i \in 1..Len(docs) |->
     [source |-> IF docs[i].source # <<>> THEN docs[i].source ELSE UNKNOWN,
      snippet |-> Slice(docs[i].pageContent, SnippetLen)]]

\* lines 240-245, for a string and for an array of strings
RECURSIVE JoinStrings(_)
JoinStrings(fs) ==
  IF fs = <<>> THEN ""
  ELSE IF Len(fs) = 1 THEN fs[1]
  ELSE fs[1] \o "\n" \o JoinStrings(Tail(fs))

answerText(content) == IF content.t = "string" THEN content.v ELSE JoinStrings(content.v)

\* The chunks a similarity search for the k nearest can return: all the
\* collection's chunks when there are at most k, else any k of them; ordered
\* here by point id.
ChunkRank(c) == c.req * 100 + c.doc * 10 + c.part

RECURSIVE Ranked(_)
Ranked(S) ==
  IF S = {} THEN <<>>
  ELSE LET c == CHOOSE c \in S : \A d \in S : ChunkRank(c) <= ChunkRank(d)
       IN <<c>> \o Ranked(S \ {c})

Nearest(coll, k) ==
  IF Cardinality(coll) <= k THEN {Ranked(coll)}
  ELSE {Ranked(S) : S \in {T \in SUBSET coll : Cardinality(T) = k}}

\* store.asRetriever(k).getRelevantDocuments(query) searches the collection
\* the handle is bound to, or fails
RetrievalOutcomes(store) ==
  {Rejected(m) : m \in ProviderErrors} \cup
  {Fulfilled(d) : d \in Nearest(qdrant[stores[store].coll], K)}

\* the handler up to the await of retriever.getRelevantDocuments (lines 324-331,
\* 210-211); a new request may arrive once the previous one is answered.
\* /ask writes no shared state, so one request in flight at a time shows
\* every view of the registry and the collection an ask can have.
AskStart(sessionId, query) ==
  /\ ask.pc \in {"idle", "done"}
  /\ LET x == [IdleAsk EXCEPT !.sessionId = sessionId, !.query = query]
     IN ask' =
       IF AskMissingField(sessionId, query)
       THEN [x EXCEPT !.pc = "done",
                      !.res = [status |-> 400, error |-> "sessionId and query are required"]]
       ELSE IF ~SessionsHas(sessionId)
       THEN [x EXCEPT !.pc = "done",
                      !.res = [status |-> 404, error |-> "Invalid or expired sessionId"]]
       ELSE [x EXCEPT !.pc = "getRelevantDocuments",
                      !.store = sessions[sessionId.v].store,
                      !.calls = <<"getRelevantDocuments">>]
  /\ UNCHANGED <<OPENAI_API_KEY, YT_LANGUAGE, issued, sessions, stores, sharedStorePromise, qdrant, ing>>

\* lines 198-201: makeLLM throws when the key is missing
makeLLMThrows == ~OPENAI_API_KEY

\* the retriever settles; answer() then calls makeLLM() and llm.invoke (lines 211-239)
AskRetrieved(outcome) ==
  /\ ask.pc = "getRelevantDocuments"
  /\ outcome \in RetrievalOutcomes(ask.store)
  /\ ask' =
       IF outcome.st = "rejected"
       THEN AskCatch([ask EXCEPT !.thrown = Thrown("getRelevantDocuments", outcome.msg)],
                     outcome.msg)
       ELSE IF makeLLMThrows
       THEN AskCatch([ask EXCEPT !.docs = outcome.v,
                                 !.thrown = Thrown("makeLLM", "Missing OPENAI_API_KEY")],
                     "Missing OPENAI_API_KEY")
       ELSE [ask EXCEPT !.pc = "invoke", !.docs = outcome.v,
                        !.calls = Append(@, "invoke")]
  /\ UNCHANGED <<OPENAI_API_KEY, YT_LANGUAGE, issued, sessions, stores, sharedStorePromise, qdrant, ing>>

\* llm.invoke settles (lines 239-253, 332)
AskInvoked(outcome) ==
  /\ ask.pc = "invoke"
  /\ ask' =
       IF outcome.st = "rejected"
       THEN AskCatch([ask EXCEPT !.thrown = Thrown("invoke", outcome.msg)], outcome.msg)
       ELSE [ask EXCEPT !.pc = "done",
                        !.res = [status |-> 200, text |-> answerText(outcome.v),
                                 sources |-> answerSources(ask.docs)]]
  /\ UNCHANGED <<OPENAI_API_KEY, YT_LANGUAGE, issued, sessions, stores, sharedStorePromise, qdrant, ing>>

(***************************************************************************)
(* Specifications.                                                         *)
(***************************************************************************)
ProviderOutcomes(values) ==
  {Fulfilled(v) : v \in values} \cup {Rejected(m) : m \in ProviderErrors}

\* The index gateway and the session registry, for the requests in R
IndexNext(R) ==
  \/ \E r \in R : \E ms \in [1..Len(ing[r].docs) -> 1..MaxChunks] : ChunkDocsDone(r, ms)
  \/ \E p \in 1..Len(stores) : \E o \in ProviderOutcomes({TRUE}) : MakeStoreDone(p, o)
  \/ \E r \in R : StoreAwaited(r)
  \/ \E r \in R : \E o \in UpsertOutcomes(ing[r].chunks) : UpsertDone(r, o)

AskNext ==
  \/ \E sid \in AskSessionIds, q \in Queries : AskStart(sid, q)
  \/ \E o \in IF ask.store = 0 THEN {} ELSE RetrievalOutcomes(ask.store) : AskRetrieved(o)
  \/ \E o \in ProviderOutcomes(LlmContents) : AskInvoked(o)

\* The whole server under concurrent requests.  Normalization touches no
\* shared state, so the requests of this specification carry inline text only.
Next ==
  \/ \E r \in Ingests, t \in InlineTexts : ProcessStart(r, t, NoFile, Undef, TRUE)
  \/ IndexNext(Ingests)
  \/ AskNext

\* YT_LANGUAGE is read by loadYouTube only (lines 132, 137), which returns at
\* line 115 when no url is sent: the behaviours of Next are the same under
\* every value of it, and they are explored under the default one.
InitInline == Init /\ YT_LANGUAGE = "en"

Spec == InitInline /\ [][Next]_vars

\* One /process request with every combination of inputs, its three
\* normalizer branches running concurrently.
NormalizeNext ==
  \/ \E t \in InlineTexts, f \in Files, u \in YoutubeUrls, parses \in BOOLEAN :
       ProcessStart(1, t, f, u, parses)
  \/ \E ok \in BOOLEAN : PdfAccessDone(1, ok)
  \/ \E o \in {Fulfilled(c) : c \in PdfContents} \cup {Rejected(m) : m \in PdfErrors} :
       PdfLoadDone(1, o)
  \/ \E o \in ProviderOutcomes(YtContents) : YtFirstDone(1, o)
  \/ \E o \in ProviderOutcomes(YtContents) : YtSecondDone(1, o)
  \/ \E ok \in BOOLEAN : UnlinkDone(1, ok)
  \/ IndexNext({1})

SpecNormalize == Init /\ [][NormalizeNext]_vars

\* Points the persistent collection can hold when the process starts, written
\* by earlier processes or by other writers: a chunk longer than a snippet, two
\* chunks alike in source and content, a point without metadata.source and a
\* point without pageContent.
LongContent == [i \in 1..(SnippetLen + 1) |-> "x"]
Preexisting ==
  {[req |-> 0, doc |-> 1, part |-> 1, pageContent |-> LongContent, source |-> <<"o">>],
   [req |-> 0, doc |-> 1, part |-> 2, pageContent |-> <<"z">>, source |-> <<"o">>],
   [req |-> 0, doc |-> 1, part |-> 3, pageContent |-> <<"z">>, source |-> <<"o">>],
   [req |-> 0, doc |-> 2, part |-> 1, pageContent |-> <<"w">>, source |-> <<>>],
   [req |-> 0, doc |-> 3, part |-> 1, pageContent |-> <<>>, source |-> <<"p">>]}

InitAnswer ==
  /\ OPENAI_API_KEY \in BOOLEAN
  /\ YT_LANGUAGE \in YtLanguages
  /\ sessions = [k \in {} |-> 0]
  /\ stores = <<>>
  /\ sharedStorePromise = 0
  /\ qdrant = [c \in CollectionNames |-> IF c = COLLECTION_NAME THEN Preexisting ELSE {}]
  /\ ing = [r \in Ingests |-> IdleIngest]
  /\ ask = IdleAsk
  /\ issued = {}

\* One ingestion into a collection that already holds points, and the
\* questions asked about it.
AnswerNext ==
  \/ \E t \in InlineTexts : ProcessStart(1, t, NoFile, Undef, TRUE)
  \/ IndexNext({1})
  \/ AskNext

SpecAnswer == InitAnswer /\ [][AnswerNext]_vars

\* SessionsAfterRestart with a fault: the registry is restored from the old process
SessionsAfterRestartPersisted == sessions

\* line 256, run again when the process starts: const sessions = new Map()
SessionsAfterRestart == [k \in {} |-> 0]

\* The process is stopped and started again: the module-level state (lines
\* 256-261) is built anew, the requests in flight are gone, the environment is
\* read again; the Qdrant collection is a separate service and keeps its points.
Restart ==
  /\ issued' = issued \cup DOMAIN sessions
  /\ sessions' = SessionsAfterRestart
  /\ stores' = <<>>
  /\ sharedStorePromise' = 0
  /\ ing' = [r \in Ingests |-> IdleIngest]
  /\ ask' = IdleAsk
  /\ OPENAI_API_KEY' \in BOOLEAN
  /\ YT_LANGUAGE' \in YtLanguages
  /\ UNCHANGED qdrant

\* The server over several process lifetimes, one /process request at a time.
RestartNext ==
  \/ \E t \in InlineTexts : ProcessStart(1, t, NoFile, Undef, TRUE)
  \/ IndexNext({1})
  \/ AskNext
  \/ Restart

SpecRestart == Init /\ [][RestartNext]_vars

(***************************************************************************)
(* Claims.                                                                 *)
(***************************************************************************)
Present(x) == x.t # "undefined" /\ x # Str(<<>>)
Registered(sessionId) == \E k \in DOMAIN sessions : sessionId = Str(k)
Blank(text) == \A i \in 1..Len(text) : text[i] \in WhiteSpace
\* request r has answered 200 with session id `id`
Creator(r, id) ==
  ing[r].pc = "done" /\ ing[r].res.status = 200 /\ ing[r].res.sessionId = id

AskGateState ==
  /\ ask.calls # <<>> => Present(ask.sessionId) /\ Present(ask.query)
                         /\ Registered(ask.sessionId)
  /\ (ask.pc # "idle" /\ ~(Present(ask.sessionId) /\ Present(ask.query)))
       => ask.pc = "done" /\ ask.res.status = 400 /\ ask.calls = <<>>
  /\ (ask.pc # "idle" /\ Present(ask.sessionId) /\ Present(ask.query)
        /\ ~Registered(ask.sessionId))
       => ask.pc = "done" /\ ask.res.status = 404 /\ ask.calls = <<>>
  /\ ask.res.status = 400 => ~(Present(ask.sessionId) /\ Present(ask.query))
  /\ ask.res.status = 404 => Present(ask.sessionId) /\ Present(ask.query)

AskGateStep ==
  (ask' # ask /\ ask'.res.status \in {400, 404})
    => /\ ~(Present(ask'.sessionId) /\ Present(ask'.query) /\ Registered(ask'.sessionId))
       /\ sessions' = sessions /\ qdrant' = qdrant /\ stores' = stores

\* C1: an ask reaches retrieval or the language model only with sessionId and
\* query both present and sessionId a key of the registry; a missing field ends
\* in 400, an unknown sessionId in 404, and a rejected ask makes no provider
\* call and leaves the registry unchanged.
C1_AskGate == []AskGateState /\ [][AskGateStep]_vars

\* an ask was rejected with 404 while the registry holds a session
C1_Witness ==
  /\ ask.res.status = 404 /\ ask.calls = <<>>
  /\ DOMAIN sessions # {}

\* the documents normalization produced for request r, in input-kind order
NormalizedDocs(r) == ing[r].parts[1].v \o ing[r].parts[2].v \o ing[r].parts[3].v
Normalized(r) ==
  /\ ing[r].pc # "idle"
  /\ \A i \in 1..3 : ing[r].parts[i].st = "fulfilled"

\* the i-th smallest element of a set of numbers
Nth(S, i) == CHOOSE n \in S : Cardinality({m \in S : m < n}) = i - 1

NonEmptyNotesInOrder(docs, ns) ==
  LET idx == {i \in 1..Len(docs) : docs[i].note # ""}
  IN /\ Len(ns) = Cardinality(idx)
     /\ \A j \in 1..Len(ns) : ns[j] = docs[Nth(idx, j)].note

\* C2: an ingest request whose normalized documents are all blank (or that has
\* no document) fails with the 400 "No extractable content" error carrying the
\* non-empty notes of the documents in document order; nothing is chunked, the
\* shared handle is not initialized, nothing is upserted, no session is created.
C2_NoExtractableContent ==
  \A r \in Ingests :
    (Normalized(r) /\ \A i \in 1..Len(NormalizedDocs(r)) :
                         Blank(NormalizedDocs(r)[i].pageContent))
    => /\ ing[r].pc = "done"
       /\ ing[r].res.status = 400
       /\ ing[r].res.error = NO_CONTENT
       /\ NonEmptyNotesInOrder(NormalizedDocs(r), ing[r].res.notes)
       /\ ing[r].chunks = <<>> /\ ing[r].awaiting = 0 /\ ing[r].upsertCalls = 0
       /\ stores = <<>> /\ sharedStorePromise = 0
       /\ DOMAIN sessions = {}
       /\ \A c \in CollectionNames : qdrant[c] = {}

\* a request with a failed PDF and a YouTube URL without captions was rejected
\* with both notes
C2_Witness ==
  \E r \in Ingests :
    /\ ing[r].res.status = 400
    /\ Len(ing[r].res.notes) = 2
    /\ Len(NormalizedDocs(r)) = 2

SessionsKept ==
  \A k \in DOMAIN sessions : k \in DOMAIN sessions' /\ sessions'[k] = sessions[k]

\* C3: once the registry maps a session id to a handle, every step keeps the
\* entry and its handle, also when a newly generated id collides with it.
C3_SessionsImmutable == [][SessionsKept]_vars

\* two requests were answered with the same session id
C3_Witness ==
  \E r1, r2 \in Ingests :
    /\ r1 # r2
    /\ \E id \in DOMAIN sessions : Creator(r1, id) /\ Creator(r2, id)

\* C4: every registered session was recorded by a request whose chunks are all
\* in the shared collection, so an ask that has resolved a session id finds
\* the chunks of the ingest that created it already stored.
C4_SessionAfterUpsert ==
  /\ \A id \in DOMAIN sessions :
       /\ \E r \in Ingests : Creator(r, id)
       /\ \A r \in Ingests :
            Creator(r, id) => Range(ing[r].chunks) \subseteq qdrant[COLLECTION_NAME]
  /\ ask.calls # <<>> =>
       \E r \in Ingests :
         /\ Creator(r, ask.sessionId.v)
         /\ Range(ing[r].chunks) \subseteq qdrant[COLLECTION_NAME]

\* an ask resolved a session whose ingest stored a chunk, while another ingest
\* is still upserting
C4_Witness ==
  /\ ask.pc = "getRelevantDocuments"
  /\ \E r \in Ingests : Creator(r, ask.sessionId.v) /\ ing[r].chunks # <<>>
  /\ \E r \in Ingests : ing[r].pc = "upsertChunks"

IngestProviderFailure(r) ==
  ing[r].thrown # <<>> /\ ing[r].thrown[1].by \in {"makeStore", "fromDocuments"}

ProviderFailureState ==
  \A r \in Ingests :
    IngestProviderFailure(r)
    => /\ ing[r].pc = "done"
       /\ ing[r].res.status = 500
       /\ ing[r].thrown[1].msg # "" => ing[r].res.error = ing[r].thrown[1].msg
       /\ ing[r].upsertCalls <= 1
       /\ Len(stores) <= 1

ProviderFailureStep ==
  \A r \in Ingests :
    (IngestProviderFailure(r)' /\ ing'[r] # ing[r]) => sessions' = sessions

\* C5: when the shared-handle connection or the upsert fails, the ingest
\* request ends with a 500 response carrying the message of the error, the
\* call is not made again, and the step adds no session to the registry.
C5_ProviderFailure == []ProviderFailureState /\ [][ProviderFailureStep]_vars

\* an upsert failed with a message after another request had created a session
C5_Witness ==
  \E r \in Ingests :
    /\ ing[r].thrown # <<>>
    /\ ing[r].thrown[1].by = "fromDocuments" /\ ing[r].thrown[1].msg # ""
    /\ ing[r].res.status = 500
    /\ DOMAIN sessions # {}

\* the collection a session's handle searches
SearchSpace(id) == qdrant[stores[sessions[id].store].coll]

\* C6: every registered session holds the same handle, bound to the one fixed
\* collection; nothing is written to another collection; the chunks of the
\* ingest that created any session are in the search space of every session.
C6_SharedCorpus ==
  /\ \A a, b \in DOMAIN sessions : sessions[a].store = sessions[b].store
  /\ \A a \in DOMAIN sessions :
       stores[sessions[a].store].coll = COLLECTION_NAME
  /\ \A c \in CollectionNames \ {COLLECTION_NAME} : qdrant[c] = {}
  /\ \A a, b \in DOMAIN sessions : \A r \in Ingests :
       Creator(r, a) => Range(ing[r].chunks) \subseteq SearchSpace(b)
  /\ ask.pc = "invoke" => Range(ask.docs) \subseteq SearchSpace(ask.sessionId.v)

\* an ask made with one session retrieved a chunk ingested by the request that
\* created another session
C6_Witness ==
  /\ ask.pc = "invoke"
  /\ \E r \in Ingests : \E id \in DOMAIN sessions :
       /\ id # ask.sessionId.v
       /\ Creator(r, id)
       /\ ~Creator(r, ask.sessionId.v)
       /\ \E i \in 1..Len(ask.docs) : ask.docs[i].req = r

\* C7: with the language-model credentials missing, the error is raised before
\* the ask request makes any network call (no embedding of the query, no
\* vector search, no language-model call).
C7_KeyCheckedBeforeNetwork == ~OPENAI_API_KEY => ask.calls = <<>>

\* C8: every ingest request that carried an uploaded file and has been answered
\* has had the deletion of its temporary file attempted, whatever the outcome
\* of normalization.
C8_UnlinkAlwaysAttempted ==
  \A r \in Ingests :
    (ing[r].pc = "done" /\ ing[r].file.present) => ing[r].unlink # "none"

PdfExtractionFailed(r) == ing[r].pdfError # <<>>

\* the document loadPdf yields for request r when extraction failed with msg
SoftPdfDocument(r, d) ==
  /\ d.pageContent = <<>>
  /\ d.source = (IF ing[r].file.originalname = <<>> THEN UPLOAD_PDF
                 ELSE ing[r].file.originalname)
  /\ d.note # ""
  /\ ing[r].pdfError[1] # "" => d.note = "Error processing PDF: " \o ing[r].pdfError[1]

\* C9: a failed PDF extraction does not reject loadPdf: it yields exactly one
\* empty document with the original filename (or the default) as source and
\* the reason in its note; when another input gave a non-blank document and
\* no call of the request threw, the request is answered 200, its session is
\* registered and sources reports the PDF entry with its note and
\* hasContent = FALSE.
C9_PdfFailureIsSoft ==
  \A r \in Ingests :
    PdfExtractionFailed(r)
    => /\ ing[r].parts[2].st = "fulfilled"
       /\ Len(ing[r].parts[2].v) = 1
       /\ SoftPdfDocument(r, ing[r].parts[2].v[1])
       /\ (/\ ing[r].pc = "done"
           /\ ing[r].thrown = <<>>
           /\ \E i \in {1, 3} : \E j \in 1..Len(ing[r].parts[i].v) :
                ~Blank(ing[r].parts[i].v[j].pageContent))
          => /\ ing[r].res.status = 200
             /\ ing[r].res.sessionId \in DOMAIN sessions
             /\ \E k \in 1..Len(ing[r].res.sources) :
                  LET e == ing[r].res.sources[k]
                  IN /\ e.source = ing[r].parts[2].v[1].source
                     /\ e.note = NoteStr(ing[r].parts[2].v[1].note)
                     /\ e.hasContent = FALSE

\* a request whose PDF failed to parse was answered 200 thanks to its inline text
C9_Witness ==
  \E r \in Ingests :
    /\ PdfExtractionFailed(r)
    /\ ing[r].res.status = 200
    /\ Len(ing[r].res.sources) = 2
    /\ ing[r].res.sources[1].hasContent /\ ~ing[r].res.sources[2].hasContent

\* C10: when the uploaded temporary file cannot be accessed, loadPdf rejects
\* with "Uploaded file cannot be accessed at <path>" and the request ends with
\* a 500 response; nothing is chunked or upserted and no session is created,
\* whatever the inline text and the video gave.
C10_SourceUnavailableIsFatal ==
  \A r \in Ingests :
    ing[r].accessFailed
    => /\ ing[r].parts[2] = Rejected("Uploaded file cannot be accessed at " \o ing[r].file.path)
       /\ ing[r].pc = "done"
       /\ ing[r].res.status = 500
       /\ (ing[r].parts[1].st # "rejected" /\ ing[r].parts[3].st # "rejected")
            => ing[r].res.error = ing[r].parts[2].msg
       /\ ing[r].chunks = <<>> /\ ing[r].upsertCalls = 0
       /\ DOMAIN sessions = {}
       /\ \A c \in CollectionNames : qdrant[c] = {}

\* the file could not be accessed while the inline text and the transcript of
\* the same request had content
C10_Witness ==
  \E r \in Ingests :
    /\ ing[r].accessFailed
    /\ ing[r].parts[1].st = "fulfilled" /\ ing[r].parts[1].v # <<>>
    /\ ing[r].parts[3].st = "fulfilled" /\ ing[r].parts[3].v # <<>>
    /\ ~Blank(ing[r].parts[3].v[1].pageContent)
    /\ ing[r].res.status = 500

\* the text an attempt of loadYouTube can use: none when the provider threw
UsableText(entry) == IF entry.threw THEN <<>> ELSE Trim(JoinLines(entry.v))
UsableAttempts(r) == {i \in 1..Len(ing[r].ytLog) : UsableText(ing[r].ytLog[i]) # <<>>}

\* C11: for a non-blank video URL loadYouTube never rejects and returns exactly
\* one document whose source is the URL; an attempt whose provider call threw
\* counts as an attempt without text; when an attempt gave non-blank joined
\* text the document has that text as content, and when neither did the
\* document has empty content and a diagnostic note.
C11_CaptionsNeverThrow ==
  \A r \in Ingests :
    (ing[r].pc # "idle" /\ ~Blank(ing[r].url))
    => /\ ing[r].parts[3].st # "rejected"
       /\ ing[r].parts[3].st = "fulfilled"
          => /\ ing[r].ytLog # <<>>
             /\ Len(ing[r].parts[3].v) = 1
             /\ ing[r].parts[3].v[1].source = ing[r].url
             /\ \A i \in UsableAttempts(r) :
                  ing[r].parts[3].v[1].pageContent = UsableText(ing[r].ytLog[i])
             /\ UsableAttempts(r) = {}
                => /\ ing[r].parts[3].v[1].pageContent = <<>>
                   /\ ing[r].parts[3].v[1].note # ""

\* the provider threw in the first attempt and the second gave the transcript
C11_Witness ==
  \E r \in Ingests :
    /\ Len(ing[r].ytLog) = 2
    /\ ing[r].ytLog[1].threw
    /\ UsableAttempts(r) = {2}
    /\ ing[r].parts[3].st = "fulfilled"
    /\ ing[r].parts[3].v[1].pageContent = UsableText(ing[r].ytLog[2])

\* C12: after a restart of the process the registry knows none of the session
\* ids issued before it: an id issued earlier is a key of sessions only when a
\* request of the present process has issued it again, and otherwise an /ask
\* with that id and a query ends with 404 without calling answer().
C12_RestartForgets ==
  \A id \in issued :
    /\ id \in DOMAIN sessions => \E r \in Ingests : Creator(r, id)
    /\ (/\ ask.pc # "idle"
        /\ ask.sessionId = Str(id)
        /\ Present(ask.query)
        /\ ~\E r \in Ingests : Creator(r, id))
       => /\ ask.pc = "done"
          /\ ask.res.status = 404
          /\ ask.calls = <<>>

\* an /ask with an id of the old process got 404 after the restart, while the
\* points that session had written are still in the collection
C12_Witness ==
  \E id \in issued :
    /\ id \notin DOMAIN sessions
    /\ ask.sessionId = Str(id)
    /\ Present(ask.query)
    /\ ask.res.status = 404
    /\ qdrant[COLLECTION_NAME] # {}

\* the requests that have called getSharedStore
CalledGetSharedStore == {r \in Ingests : ing[r].awaiting # 0}

\* C13: within one process makeStore is called at most once, and every call of
\* getSharedStore returns the promise of that one call, also when two first
\* ingestions are in flight at the same time.
C13_SharedStoreOnce ==
  /\ Len(stores) <= 1
  /\ sharedStorePromise = Len(stores)
  /\ \A r \in CalledGetSharedStore : ing[r].awaiting = 1 /\ stores # <<>>

\* two ingestions wait for the one makeStore promise, which is still pending
C13_Witness ==
  /\ Len(stores) = 1
  /\ stores[1].st = "pending"
  /\ \E r1, r2 \in Ingests :
       /\ r1 # r2
       /\ ing[r1].pc = "getSharedStore" /\ ing[r2].pc = "getSharedStore"
       /\ ing[r1].awaiting = ing[r2].awaiting

\* the branches of request r that have not settled
Running(r) == {i \in 1..3 : ing[r].parts[i].st = "pending"}
PastPromiseAll(r) == ing[r].pc \notin {"idle", "normalize"}

\* C14 as stated: once the handler is past Promise.all (chunking, deletion of
\* the file, the catch block, the response) no branch is running, also when a
\* branch has failed.
C14_AwaitsAllBranches ==
  \A r \in Ingests : PastPromiseAll(r) => Running(r) = {}

\* C14, amended: the handler goes on to flatten, delete the file, chunk and
\* answer 200 or 400 only when all three branches have fulfilled; a branch is
\* still running past Promise.all only when another branch has rejected, and
\* then the handler has done nothing but the catch block: it has answered 500,
\* has started no deletion and has chunked nothing.
C14_AwaitsAllUnlessRejected ==
  \A r \in Ingests :
    (PastPromiseAll(r) /\ Running(r) # {})
    => /\ \E i \in 1..3 : ing[r].parts[i].st = "rejected"
       /\ ing[r].pc = "done"
       /\ ing[r].res.status = 500
       /\ ing[r].thrown # <<>> /\ ing[r].thrown[1].by = "normalize"
       /\ ing[r].unlink = "none"
       /\ ing[r].docs = <<>> /\ ing[r].chunks = <<>>

\* the file could not be accessed and the request has answered 500 while the
\* first transcript attempt is still in flight
C14_Witness ==
  \E r \in Ingests :
    /\ ing[r].accessFailed
    /\ ing[r].pc = "done" /\ ing[r].res.status = 500
    /\ ing[r].parts[3] = Pending("attempt1")

\* C15: whatever the order in which the branches settle, the flattened
\* documents are those of the inline text, then those of the PDF, then those of
\* the video; the sources list of a 200 response has one entry per document,
\* in that order.
C15_InputKindOrder ==
  \A r \in Ingests :
    (PastPromiseAll(r) /\ Normalized(r))
    => /\ ing[r].docs = NormalizedDocs(r)
       /\ ing[r].res.status = 200
          => /\ Len(ing[r].res.sources) = Len(NormalizedDocs(r))
             /\ \A i \in 1..Len(NormalizedDocs(r)) :
                  ing[r].res.sources[i].source = NormalizedDocs(r)[i].source

\* the transcript arrived before the PDF was read, and the 200 response lists
\* inline text, PDF and video in this order
C15_Witness ==
  \E r \in Ingests :
    /\ ing[r].order = <<3, 2>>
    /\ ing[r].res.status = 200
    /\ Len(ing[r].res.sources) = 3
    /\ ing[r].res.sources[1].source = INLINE
    /\ ing[r].res.sources[2].source = PdfSource(ing[r].file.originalname)
    /\ ing[r].res.sources[3].source = ing[r].url

HasLanguageHint(options) == "language" \in DOMAIN options

\* C16: loadYouTube creates a loader at most twice, first with the language
\* hint and then without it; the second loader is created exactly when the
\* first load threw or gave blank joined text, and no third one ever is.
C16_AtMostTwoAttempts ==
  \A r \in Ingests :
    /\ Len(ing[r].ytCalls) <= 2
    /\ Len(ing[r].ytLog) <= Len(ing[r].ytCalls)
    /\ Len(ing[r].ytCalls) >= 1 => HasLanguageHint(ing[r].ytCalls[1])
    /\ Len(ing[r].ytCalls) = 2 => ~HasLanguageHint(ing[r].ytCalls[2])
    /\ Len(ing[r].ytCalls) = 2
       <=> (ing[r].ytLog # <<>> /\ UsableText(ing[r].ytLog[1]) = <<>>)
    /\ (~Blank(ing[r].url) /\ ing[r].pc # "idle") => Len(ing[r].ytCalls) >= 1

\* the first load returned documents with blank text, the second was made
\* without the hint and has settled too
C16_Witness ==
  \E r \in Ingests :
    /\ Len(ing[r].ytLog) = 2
    /\ ~ing[r].ytLog[1].threw /\ ing[r].ytLog[1].v # <<>>
    /\ Len(ing[r].ytCalls) = 2
    /\ ing[r].parts[3].st = "fulfilled"

\* C17: the sources of an answer are the retrieved chunks, one entry per chunk
\* in retrieval order: as many entries as chunks and at most k = 5, entry i
\* with the source of chunk i ("unknown" when the chunk has none) and with the
\* first 200 characters of its content; chunks alike in source or content
\* each keep their entry.
C17_SourcesMirrorRetrieval ==
  (ask.pc = "done" /\ ask.res.status = 200)
  => /\ Len(ask.res.sources) = Len(ask.docs)
     /\ Len(ask.res.sources) <= K
     /\ \A i \in 1..Len(ask.docs) :
          LET entry == ask.res.sources[i]
              chunk == ask.docs[i]
          IN /\ entry.source = IF chunk.source # <<>> THEN chunk.source ELSE UNKNOWN
             /\ Len(entry.snippet) =
                  IF Len(chunk.pageContent) < 200 THEN Len(chunk.pageContent) ELSE 200
             /\ \A j \in 1..Len(entry.snippet) : entry.snippet[j] = chunk.pageContent[j]

\* an answer with k sources out of a larger collection, among them a snippet
\* cut at 200 characters, a chunk without source and two equal entries
C17_Witness ==
  /\ ask.pc = "done" /\ ask.res.status = 200
  /\ Cardinality(qdrant[COLLECTION_NAME]) > K
  /\ Len(ask.res.sources) = K
  /\ \E i, j, m, n \in 1..K :
       /\ Len(ask.docs[i].pageContent) > 200 /\ Len(ask.res.sources[i].snippet) = 200
       /\ ask.docs[j].source = <<>> /\ ask.res.sources[j].source = UNKNOWN
       /\ m # n /\ ask.res.sources[m] = ask.res.sources[n]

\* C18: a non-blank inline text gives exactly one document whose content is
\* the text as it was sent, untrimmed, with source "inline"; an absent, empty
\* or whitespace-only text gives no document.
C18_InlineVerbatim ==
  \A r \in Ingests :
    (ing[r].pc # "idle" /\ ing[r].inlineText.t \in {"undefined", "string"})
    => IF ing[r].inlineText.t = "string" /\ ~Blank(ing[r].inlineText.v)
       THEN /\ ing[r].parts[1].st = "fulfilled"
            /\ Len(ing[r].parts[1].v) = 1
            /\ ing[r].parts[1].v[1].pageContent = ing[r].inlineText.v
            /\ ing[r].parts[1].v[1].source = INLINE
       ELSE ing[r].parts[1] = Fulfilled(<<>>)

\* an inline text that ends with a blank has become a document that ends with it
C18_Witness ==
  \E r \in Ingests :
    /\ ing[r].inlineText.t = "string"
    /\ ing[r].inlineText.v # <<>>
    /\ ing[r].inlineText.v[Len(ing[r].inlineText.v)] \in WhiteSpace
    /\ ing[r].parts[1].v # <<>>
    /\ ing[r].parts[1].v[1].pageContent = ing[r].inlineText.v

\* C19: a rejected makeStore promise stays cached for the life of the process:
\* makeStore is never called again, every request that has awaited the shared
\* store has ended with a 500 response carrying the error of makeStore, nothing
\* was upserted by it and no session exists.
C19_StoreFailureIsSticky ==
  (stores # <<>> /\ stores[1].st = "rejected")
  => /\ Len(stores) = 1
     /\ sharedStorePromise = 1
     /\ DOMAIN sessions = {}
     /\ \A r \in CalledGetSharedStore :
          /\ ing[r].pc \in {"getSharedStore", "done"}
          /\ ing[r].upsertCalls = 0
          /\ ing[r].pc = "done"
             => /\ ing[r].res.status = 500
                /\ ing[r].thrown = Thrown("makeStore", stores[1].msg)
                /\ ing[r].res.error = ErrorMessage(stores[1].msg, "Failed to process")

\* makeStore failed once and two ingestions with content have both ended 500
C19_Witness ==
  /\ stores # <<>> /\ stores[1].st = "rejected"
  /\ \E r1, r2 \in Ingests :
       /\ r1 # r2
       /\ ing[r1].res.status = 500 /\ ing[r2].res.status = 500
       /\ ing[r1].thrown # <<>> /\ ing[r1].thrown[1].by = "makeStore"
       /\ ing[r2].thrown # <<>> /\ ing[r2].thrown[1].by = "makeStore"
       /\ hasAnyContent(ing[r1].docs) /\ hasAnyContent(ing[r2].docs)

\* the requests that have answered 200
Succeeded == {r \in Ingests : ing[r].pc = "done" /\ ing[r].res.status = 200}

\* C20: a 200 response of /process reports added equal to chunks, the number
\* of chunks made; its sessionId is a key of sessions when it is sent, and the
\* registry has grown by one sessions.set per 200 response: its keys are the
\* ids of the 200 responses and no others.
C20_AddedEqualsChunks ==
  /\ \A r \in Succeeded :
       /\ ing[r].res.added = ing[r].res.chunks
       /\ ing[r].res.chunks = Len(ing[r].chunks)
       /\ ing[r].upsertCalls = 1
       /\ ing[r].res.sessionId \in DOMAIN sessions
  /\ DOMAIN sessions = {ing[r].res.sessionId : r \in Succeeded}

\* two ingestions have answered 200 with different ids and both are registered
C20_Witness ==
  \E r1, r2 \in Succeeded :
    /\ ing[r1].res.sessionId # ing[r2].res.sessionId
    /\ ing[r1].res.added >= 1 /\ ing[r2].res.added >= 1
    /\ DOMAIN sessions = {ing[r1].res.sessionId, ing[r2].res.sessionId}

====
